---- MODULE Spec2Model ----
(***************************************************************************)
(* Model of tinyland-offer-builder: the transaction mapping table, the     *)
(* OfferBuilderService operations and the process-wide tracer config.      *)
(*                                                                         *)
(* JavaScript values are tagged records (Undefined, Bool, Num, NaN, Str,   *)
(* Arr, Obj, Fn).  A JavaScript string is the sequence of its pieces: the  *)
(* pieces of a template literal, or the characters of a price string.      *)
(* A number n is held as the integer n * Scale.  An object whose set of    *)
(* keys matters (an offer, a price specification) is a function from its   *)
(* present keys to values.                                                 *)
(***************************************************************************)
EXTENDS Integers, Sequences, FiniteSets, TLC

\* ------------------------------------------------------------------ bounds
MaxStrLen == 2      \* longest price string drawn as input
MaxTx == 2          \* longest frontmatter.transactions sequence drawn as input
MaxPushed == 1      \* most elements a caller pushes onto one returned list

Scale == 10 ^ (MaxStrLen + 1)

\* ------------------------------------------------------- JavaScript values
Undefined == [t |-> "undefined"]
NaN == [t |-> "nan"]
Bool(b) == [t |-> "boolean", b |-> b]
Num(n) == [t |-> "number", n |-> n]
Str(s) == [t |-> "string", s |-> s]
Arr(a) == [t |-> "array", a |-> a]
Obj(o) == [t |-> "object", o |-> o]
Fn(name) == [t |-> "function", name |-> name]
\* an array held by reference: the paymentMethods array of a table entry
Ref(type) == [t |-> "ref", to |-> type]

\* ToBoolean, as used by !x, x || y and x ? a : b
Truthy(v) ==
    CASE v.t = "undefined" -> FALSE
      [] v.t = "nan" -> FALSE
      [] v.t = "boolean" -> v.b
      [] v.t = "number" -> v.n # 0
      [] v.t = "string" -> v.s # <<>>
      [] OTHER -> TRUE

\* x || y
OrElse(x, y) == IF Truthy(x) THEN x ELSE y

\* o.k and o?.k for a value o that is not undefined
Get(v, k) == IF v.t = "object" /\ k \in DOMAIN v.o THEN v.o[k] ELSE Undefined

\* (property) in result position: the keys an object carries
Has(o, k) == k \in DOMAIN o

\* ------------------------------------------------- transaction-mappings.ts
\* mutant of Mapping: the subscription and donation flags change places
MappingSwapped(type, schemaType, availability, url, monetary, crypto, sub, don) ==
  Obj(
    [transactionType |-> Str(<<type>>),
     schemaType |-> Str(<<schemaType>>),
     paymentMethods |-> Ref(type),
     defaultAvailability |-> Str(<<availability>>),
     requiresExternalUrl |-> Bool(url),
     isMonetary |-> Bool(monetary),
     isCryptocurrency |-> Bool(crypto),
     isSubscription |-> Bool(don),
     isDonation |-> Bool(sub)])

\* one entry of the table; its paymentMethods array is held by reference
Mapping(type, schemaType, availability, url, monetary, crypto, sub, don) ==
  Obj(
    [transactionType |-> Str(<<type>>),
     schemaType |-> Str(<<schemaType>>),
     paymentMethods |-> Ref(type),
     defaultAvailability |-> Str(<<availability>>),
     requiresExternalUrl |-> Bool(url),
     isMonetary |-> Bool(monetary),
     isCryptocurrency |-> Bool(crypto),
     isSubscription |-> Bool(sub),
     isDonation |-> Bool(don)])

TRANSACTION_MAPPINGS ==
       ("inquiry" :> Mapping("inquiry", "Offer", "InStock", FALSE, FALSE, FALSE, FALSE, FALSE))
    @@ ("ebay" :> Mapping("ebay", "Offer", "OnlineOnly", TRUE, TRUE, FALSE, FALSE, FALSE))
    @@ ("etsy" :> Mapping("etsy", "Offer", "OnlineOnly", TRUE, TRUE, FALSE, FALSE, FALSE))
    @@ ("amazon" :> Mapping("amazon", "Offer", "OnlineOnly", TRUE, TRUE, FALSE, FALSE, FALSE))
    @@ ("snail-mail" :> Mapping("snail-mail", "Offer", "InStock", FALSE, TRUE, FALSE, FALSE, FALSE))
    @@ ("monero" :> Mapping("monero", "Offer", "InStock", FALSE, TRUE, TRUE, FALSE, FALSE))
    @@ ("stripe" :> Mapping("stripe", "Offer", "InStock", FALSE, TRUE, FALSE, FALSE, FALSE))
    @@ ("polar" :> Mapping("polar", "Offer", "OnlineOnly", TRUE, TRUE, FALSE, TRUE, FALSE))
    @@ ("talar" :> Mapping("talar", "Offer", "InStock", FALSE, TRUE, FALSE, FALSE, FALSE))
    @@ ("repository" :> Mapping("repository", "Offer", "OnlineOnly", TRUE, FALSE, FALSE, FALSE, FALSE))
    @@ ("documentation" :> Mapping("documentation", "Offer", "OnlineOnly", TRUE, FALSE, FALSE, FALSE, FALSE))
    @@ ("booking" :> Mapping("booking", "ReserveAction", "LimitedAvailability", TRUE, TRUE, FALSE, FALSE, FALSE))
    @@ ("liberapay" :> Mapping("liberapay", "DonateAction", "OnlineOnly", TRUE, TRUE, FALSE, TRUE, TRUE))
    @@ ("kofi" :> Mapping("kofi", "DonateAction", "OnlineOnly", TRUE, TRUE, FALSE, FALSE, TRUE))
    @@ ("contribute-to-consume" :> Mapping("contribute-to-consume", "Offer", "InStock", FALSE, FALSE, FALSE, FALSE, FALSE))

\* the paymentMethods array literals of the table, entry by entry
PaymentMethodArrays ==
       ("inquiry" :> <<>>)
    @@ ("ebay" :> <<"CreditCard", "PaymentService">>)
    @@ ("etsy" :> <<"CreditCard", "PaymentService">>)
    @@ ("amazon" :> <<"CreditCard", "PaymentService">>)
    @@ ("snail-mail" :> <<"Cash", "BankTransfer">>)
    @@ ("monero" :> <<"Cryptocurrency">>)
    @@ ("stripe" :> <<"CreditCard", "PaymentService">>)
    @@ ("polar" :> <<"Subscription", "PaymentService">>)
    @@ ("talar" :> <<"BankTransfer", "PaymentService">>)
    @@ ("repository" :> <<>>)
    @@ ("documentation" :> <<>>)
    @@ ("booking" :> <<"PaymentService", "CreditCard">>)
    @@ ("liberapay" :> <<"Donation", "PaymentService">>)
    @@ ("kofi" :> <<"Donation", "PaymentService">>)
    @@ ("contribute-to-consume" :> <<"Exchange">>)

\* The table is a plain object literal: a property read with a key it does not
\* own falls through to Object.prototype, whose members are functions.
ObjectPrototypeKeys ==
    {"constructor", "toString", "toLocaleString", "valueOf",
     "hasOwnProperty", "isPrototypeOf", "propertyIsEnumerable"}

\* table[key] on an object literal
PropertyOf(table, key) ==
    IF key \in DOMAIN table THEN table[key]
    ELSE IF key \in ObjectPrototypeKeys THEN Fn(key)
    ELSE Undefined

getTransactionMapping(type) == PropertyOf(TRANSACTION_MAPPINGS, type)

\* x ?? y
Nullish(x, y) == IF x = Undefined THEN y ELSE x

\* TRANSACTION_MAPPINGS[type]?.requiresExternalUrl ?? false
requiresExternalUrl(type) ==
    Nullish(Get(PropertyOf(TRANSACTION_MAPPINGS, type), "requiresExternalUrl"),
            Bool(FALSE))

\* TRANSACTION_MAPPINGS[type]?.isMonetary ?? false
isMonetary(type) ==
    Nullish(Get(PropertyOf(TRANSACTION_MAPPINGS, type), "isMonetary"), Bool(FALSE))

getSupportedTransactionTypes == DOMAIN TRANSACTION_MAPPINGS

\* ------------------------------------------------------------- parseFloat
Digits == {"0", "1", "2", "3", "4", "5", "6", "7", "8", "9"}

DigitValue ==
    ("0" :> 0) @@ ("1" :> 1) @@ ("2" :> 2) @@ ("3" :> 3) @@ ("4" :> 4) @@
    ("5" :> 5) @@ ("6" :> 6) @@ ("7" :> 7) @@ ("8" :> 8) @@ ("9" :> 9)

RECURSIVE DigitPrefixLen(_)
DigitPrefixLen(s) ==
    IF s = <<>> \/ Head(s) \notin Digits THEN 0 ELSE 1 + DigitPrefixLen(Tail(s))

RECURSIVE DigitsValue(_)
DigitsValue(s) ==
    IF s = <<>> THEN 0
    ELSE 10 * DigitsValue(SubSeq(s, 1, Len(s) - 1)) + DigitValue[s[Len(s)]]

\* parseFloat on a string of characters: the longest prefix that is a decimal
\* literal (sign, digits, point, digits), NaN when there is none.  Exponents,
\* white space and "Infinity" are outside the characters drawn as input.
parseFloat(s) ==
    LET neg == s # <<>> /\ Head(s) = "-"
        signed == s # <<>> /\ Head(s) \in {"-", "+"}
        body == IF signed THEN Tail(s) ELSE s
        ni == DigitPrefixLen(body)
        rest == SubSeq(body, ni + 1, Len(body))
        hasDot == rest # <<>> /\ Head(rest) = "."
        nf == IF hasDot THEN DigitPrefixLen(Tail(rest)) ELSE 0
        intPart == DigitsValue(SubSeq(body, 1, ni))
        fracPart == (DigitsValue(SubSeq(rest, 2, nf + 1)) * Scale) \div (10 ^ nf)
        magnitude == intPart * Scale + fracPart
    IN  IF ni + nf = 0 THEN NaN
        ELSE Num(IF neg THEN 0 - magnitude ELSE magnitude)

\* --------------------------------------------------------- offer-builder.ts
\* mutant of PriceValue: the price is passed on without parseFloat
PriceValueAsGiven(price) == price

\* typeof price === 'string' ? parseFloat(price) : price
PriceValue(price) == IF price.t = "string" THEN parseFloat(price.s) ELSE price

buildPriceSpec(price, currency, mapping) ==
    LET crypto == Truthy(Get(mapping, "isCryptocurrency"))
        spec == ("@type" :> Str(<<IF crypto THEN "UnitPriceSpecification"
                                            ELSE "PriceSpecification">>))
             @@ ("price" :> PriceValue(price))
             @@ ("priceCurrency" :> currency)
    IN  Obj(IF ~crypto THEN spec @@ ("valueAddedTaxIncluded" :> Bool(FALSE))
            ELSE spec)

actions ==
       ("inquiry" :> Str(<<"contact">>))
    @@ ("repository" :> Str(<<"view-source">>))
    @@ ("documentation" :> Str(<<"read-docs">>))
    @@ ("contribute-to-consume" :> Str(<<"contribute">>))

getRequiredAction(transactionType) ==
    OrElse(PropertyOf(actions, transactionType), Str(<<"visit">>))

names ==
       ("inquiry" :> Str(<<"Contact">>))
    @@ ("ebay" :> Str(<<"eBay">>))
    @@ ("etsy" :> Str(<<"Etsy">>))
    @@ ("amazon" :> Str(<<"Amazon">>))
    @@ ("snail-mail" :> Str(<<"Mail Order">>))
    @@ ("monero" :> Str(<<"Monero">>))
    @@ ("stripe" :> Str(<<"Credit Card">>))
    @@ ("polar" :> Str(<<"Polar Subscription">>))
    @@ ("talar" :> Str(<<"GNU Taler">>))
    @@ ("repository" :> Str(<<"Source Code">>))
    @@ ("documentation" :> Str(<<"Documentation">>))
    @@ ("booking" :> Str(<<"Book Appointment">>))
    @@ ("liberapay" :> Str(<<"Liberapay">>))
    @@ ("kofi" :> Str(<<"Ko-fi">>))
    @@ ("contribute-to-consume" :> Str(<<"Contribute to Access">>))

\* mutant of getTransactionDisplayName: the table is not consulted
getTransactionDisplayNameRaw(transactionType) == Str(<<transactionType>>)

getTransactionDisplayName(transactionType) ==
    OrElse(PropertyOf(names, transactionType), Str(<<transactionType>>))

\* the outcome of a call: a returned value or a thrown Error
Return(v) == [kind |-> "return", value |-> v]
Throw(message) == [kind |-> "throw", message |-> message]

UnknownTypeMessage(type) == Str(<<"Unknown transaction type: ", type>>)

\* `${baseUrl}/products/${product.slug}`
ProductUrl(product, baseUrl) == Str(<<baseUrl, "/products/", product.slug>>)

\* `${baseUrl}/products/${product.slug}#offer-${transaction.type}`
OfferId(product, transaction, baseUrl) ==
    Str(<<baseUrl, "/products/", product.slug, "#offer-", transaction.type>>)

\* (fm.name as string) || product.title
ProductName(product) == OrElse(product.frontmatter.name, Str(<<product.title>>))

\* mutant of HasPrice: a presence test in place of the truthiness test
HasPricePresent(mapping, transaction) ==
    Truthy(Get(mapping, "isMonetary")) /\ transaction.price # Undefined

\* mapping.isMonetary && transaction.price
HasPrice(mapping, transaction) ==
    Truthy(Get(mapping, "isMonetary")) /\ Truthy(transaction.price)

\* transaction.currency || 'USD'
OfferCurrency(transaction) == OrElse(transaction.currency, Str(<<"USD">>))

\* the offer literal of buildOffer
OfferLiteral(product, transaction, baseUrl, mapping) ==
       ("@context" :> Str(<<"https://schema.org">>))
    @@ ("@type" :> Str(<<"Offer">>))
    @@ ("@id" :> OfferId(product, transaction, baseUrl))
    @@ ("name" :> OrElse(transaction.label,
                         Str(ProductName(product).s \o <<" - ", transaction.type>>)))
    @@ ("description" :> transaction.description)
    @@ ("url" :> OrElse(transaction.url, ProductUrl(product, baseUrl)))
    @@ ("availability" :> OrElse(transaction.availability,
                                 Get(mapping, "defaultAvailability")))
    @@ ("acceptedPaymentMethod" :> Get(mapping, "paymentMethods"))
    @@ ("transactionType" :> Str(<<transaction.type>>))

\* if (mapping.isMonetary && transaction.price) { price, priceCurrency,
\* priceSpecification }
PriceFields(mapping, transaction) ==
    IF HasPrice(mapping, transaction)
    THEN    ("price" :> transaction.price)
         @@ ("priceCurrency" :> OfferCurrency(transaction))
         @@ ("priceSpecification" :>
                buildPriceSpec(transaction.price, OfferCurrency(transaction), mapping))
    ELSE << >>

\* mutant of ExternalUrlField: a presence test in place of the truthiness test
ExternalUrlFieldPresent(transaction) ==
    IF transaction.url # Undefined THEN ("externalUrl" :> transaction.url) ELSE << >>

\* if (transaction.url) { offer.externalUrl = transaction.url }
ExternalUrlField(transaction) ==
    IF Truthy(transaction.url) THEN ("externalUrl" :> transaction.url) ELSE << >>

\* offer.seller and offer.itemOffered
SellerAndItem(product, baseUrl) ==
       ("seller" :> Obj(("@type" :> Str(<<"Organization">>))
                     @@ ("name" :> Str(<<"Tinyland">>))
                     @@ ("url" :> Str(<<baseUrl>>))))
    @@ ("itemOffered" :> Obj(("@type" :> Str(<<"Product">>))
                          @@ ("name" :> ProductName(product))
                          @@ ("description" :> product.frontmatter.description)
                          @@ ("url" :> ProductUrl(product, baseUrl))
                          @@ ("image" :> product.frontmatter.image)))

\* if (!mapping.isMonetary) { offer.requiresAction = ... }
RequiresActionField(mapping, transaction) ==
    IF ~Truthy(Get(mapping, "isMonetary"))
    THEN ("requiresAction" :> getRequiredAction(transaction.type))
    ELSE << >>

\* buildOffer's try block from the mapping it looked up to the return
OfferFor(product, transaction, baseUrl, mapping) ==
    IF ~Truthy(mapping)
    THEN Throw(UnknownTypeMessage(transaction.type))
    ELSE Return(Obj(   OfferLiteral(product, transaction, baseUrl, mapping)
                    @@ PriceFields(mapping, transaction)
                    @@ ExternalUrlField(transaction)
                    @@ SellerAndItem(product, baseUrl)
                    @@ RequiresActionField(mapping, transaction)))

\* mutant of BuildOfferBody: a monetary transaction without a price is refused
BuildOfferBodyValidating(product, transaction, baseUrl) ==
    IF /\ Truthy(Get(PropertyOf(TRANSACTION_MAPPINGS, transaction.type), "isMonetary"))
       /\ ~Truthy(transaction.price)
    THEN Throw(Str(<<"Monetary transaction type \"", transaction.type,
                     "\" requires a price">>))
    ELSE OfferFor(product, transaction, baseUrl,
                  PropertyOf(TRANSACTION_MAPPINGS, transaction.type))

\* buildOffer's try block
BuildOfferBody(product, transaction, baseUrl) ==
    OfferFor(product, transaction, baseUrl,
             PropertyOf(TRANSACTION_MAPPINGS, transaction.type))

\* ------------------------------------------------- instrumentation (config)
noopTracer == [t |-> "tracer", id |-> "noopTracer"]
customTracer == [t |-> "tracer", id |-> "customTracer"]

\* mutant of ResolveTracer: the config is not consulted
ResolveNoop(c) == noopTracer

\* getConfig().tracer ?? noopTracer, for a config c
ResolveTracer(c) ==
    IF "tracer" \in DOMAIN c /\ c["tracer"] # Undefined THEN c["tracer"] ELSE noopTracer

\* the calls an operation makes on its tracer and on the span it is handed;
\* span numbers the startActiveSpan invocations of one operation
StartActiveSpan(sid, tracer, name) ==
    [span |-> sid, call |-> "startActiveSpan", tracer |-> tracer.id, name |-> name]
SetAttribute(sid, key, value) ==
    [span |-> sid, call |-> "setAttribute", key |-> key, value |-> value]
SetStatus(sid, code, message) ==
    [span |-> sid, call |-> "setStatus", code |-> code, message |-> message]
RecordException(sid, message) ==
    [span |-> sid, call |-> "recordException", message |-> message]
End(sid) == [span |-> sid, call |-> "end"]

\* mutant of CatchCalls: the error status is set, the exception not recorded
CatchCallsStatusOnly(sid, out) == <<SetStatus(sid, 2, out.message)>>

\* catch (error) { recordException; setStatus(2, message); throw error }
CatchCalls(sid, out) ==
    <<RecordException(sid, out.message), SetStatus(sid, 2, out.message)>>

\* finally { span.end() }
FinallyCalls(sid) == <<End(sid)>>

\* tracer.startActiveSpan(name, (span) => { try ... catch ... finally }) for
\* a tracer that hands the callback one span and returns the callback's
\* result: the outcome and the calls made, in order.  tryCalls are the calls of
\* the try block before its outcome out is known, returnCalls those of a try
\* block that reaches its return.
ActiveSpan(tracer, sid, name, tryCalls, out, returnCalls) ==
    [outcome |-> out,
     calls |-> <<StartActiveSpan(sid, tracer, name)>>
               \o tryCalls
               \o (IF out.kind = "throw" THEN CatchCalls(sid, out) ELSE returnCalls)
               \o FinallyCalls(sid)]

\* mutant of buildOffer: the offer is labelled with the tracer it was built
\* under
buildOfferLabelled(tracer, sid, product, transaction, baseUrl) ==
    ActiveSpan(tracer, sid, "OfferBuilderService.buildOffer",
               <<SetAttribute(sid, "transaction.type", Str(<<transaction.type>>)),
                 SetAttribute(sid, "product.slug", Str(<<product.slug>>))>>,
               BuildOfferBody(product, [transaction EXCEPT !.label = Str(<<tracer.id>>)],
                              baseUrl),
               <<SetStatus(sid, 1, Undefined)>>)

buildOffer(tracer, sid, product, transaction, baseUrl) ==
    ActiveSpan(tracer, sid, "OfferBuilderService.buildOffer",
               <<SetAttribute(sid, "transaction.type", Str(<<transaction.type>>)),
                 SetAttribute(sid, "product.slug", Str(<<product.slug>>))>>,
               BuildOfferBody(product, transaction, baseUrl),
               <<SetStatus(sid, 1, Undefined)>>)

\* (b.priority || 0) - (a.priority || 0)
EffectivePriority(t) == OrElse(t.priority, Num(0)).n
Compare(a, b) == EffectivePriority(b) - EffectivePriority(a)

\* Array.prototype.sort is stable: an element is placed before the first
\* element the comparator orders it strictly before
\* mutant of InsertSorted: an element is placed before its equals
RECURSIVE InsertBeforeEquals(_, _)
InsertBeforeEquals(x, sorted) ==
    IF sorted = <<>> THEN <<x>>
    ELSE IF Compare(x, Head(sorted)) <= 0 THEN <<x>> \o sorted
    ELSE <<Head(sorted)>> \o InsertBeforeEquals(x, Tail(sorted))

RECURSIVE InsertSorted(_, _)
InsertSorted(x, sorted) ==
    IF sorted = <<>> THEN <<x>>
    ELSE IF Compare(x, Head(sorted)) < 0 THEN <<x>> \o sorted
    ELSE <<Head(sorted)>> \o InsertSorted(x, Tail(sorted))

RECURSIVE Sort(_)
Sort(s) ==
    IF s = <<>> THEN <<>>
    ELSE InsertSorted(s[Len(s)], Sort(SubSeq(s, 1, Len(s) - 1)))

\* mutant of Filter: disabled transactions are kept
FilterNothing(s) == s

\* transactions.filter((t) => t.enabled)
Filter(s) == SelectSeq(s, LAMBDA t : t.enabled)

\* (fm.transactions as TransactionConfig[]) || []
Transactions(product) ==
    IF Truthy(product.frontmatter.transactions)
    THEN product.frontmatter.transactions.a ELSE <<>>

enabledTransactions(product) == Sort(Filter(Transactions(product)))

\* mutant of TransactionsAfter: sort orders the product's own array
TransactionsSortedInPlace(s) == Sort(s)

\* the product's transactions array once buildAllOffers is done: filter
\* returns a new array and sort orders that one in place, so the product's
\* array holds what it held, in the order it held it
TransactionsAfter(s) == s

\* the product once buildAllOffers is done
ProductAfter(product) ==
    IF Truthy(product.frontmatter.transactions)
    THEN [product EXCEPT !.frontmatter.transactions = Arr(TransactionsAfter(@.a))]
    ELSE product

\* enabledTransactions.map((t) => this.buildOffer(product, t, baseUrl)):
\* builds in order, each under a span of its own, and stops at the first throw
RECURSIVE MapBuildOffer(_, _, _, _, _, _, _)
RECURSIVE MapNext(_, _, _, _, _, _, _, _)
MapNext(r, ts, tracer, sid, product, baseUrl, offers, calls) ==
    IF r.outcome.kind = "throw"
    THEN [outcome |-> r.outcome, calls |-> calls \o r.calls]
    ELSE MapBuildOffer(Tail(ts), tracer, sid + 1, product, baseUrl,
                       Append(offers, r.outcome.value), calls \o r.calls)

MapBuildOffer(ts, tracer, sid, product, baseUrl, offers, calls) ==
    IF ts = <<>> THEN [outcome |-> Return(Arr(offers)), calls |-> calls]
    ELSE MapNext(buildOffer(tracer, sid, product, Head(ts), baseUrl),
                 ts, tracer, sid, product, baseUrl, offers, calls)

\* mutant of ReturnCalls: the status is set, the count of offers is not
ReturnCallsStatusOnly(sid, out) ==
    IF out.kind = "return" THEN <<SetStatus(sid, 1, Undefined)>> ELSE <<>>

\* span.setAttribute('offers.count', offers.length); span.setStatus({ code: 1 })
ReturnCalls(sid, out) ==
    IF out.kind = "return"
    THEN <<SetAttribute(sid, "offers.count", Num(Len(out.value.a) * Scale)),
           SetStatus(sid, 1, Undefined)>>
    ELSE <<>>

\* buildAllOffers around the outcome and calls m of its map
AllOffersSpan(tracer, sid, product, m) ==
    ActiveSpan(tracer, sid, "OfferBuilderService.buildAllOffers",
               <<SetAttribute(sid, "product.slug", Str(<<product.slug>>))>> \o m.calls,
               m.outcome,
               ReturnCalls(sid, m.outcome))

buildAllOffers(tracer, sid, product, baseUrl) ==
    AllOffersSpan(tracer, sid, product,
                  MapBuildOffer(enabledTransactions(product), tracer, sid + 1,
                                product, baseUrl, <<>>, <<>>))

\* --------------------------------------------------- number to string
DigitChar == <<"0", "1", "2", "3", "4", "5", "6", "7", "8", "9">>

RECURSIVE IntDigits(_)
IntDigits(k) ==
    IF k < 10 THEN <<DigitChar[k + 1]>>
    ELSE IntDigits(k \div 10) \o <<DigitChar[(k % 10) + 1]>>

\* the digits after the point of f / unit, without trailing zeros
RECURSIVE FracDigits(_, _)
FracDigits(f, unit) ==
    IF f = 0 THEN <<>>
    ELSE <<DigitChar[((f * 10) \div unit) + 1]>> \o FracDigits((f * 10) % unit, unit)

\* String(v) as a template literal renders it
ToStr(v) ==
    CASE v.t = "string" -> v.s
      [] v.t = "nan" -> <<"NaN">>
      [] v.t = "number" ->
            LET a == IF v.n < 0 THEN 0 - v.n ELSE v.n
                frac == FracDigits(a % Scale, Scale)
            IN  (IF v.n < 0 THEN <<"-">> ELSE <<>>)
                \o IntDigits(a \div Scale)
                \o (IF frac = <<>> THEN <<>> ELSE <<".">> \o frac)
      [] OTHER -> <<v.t>>

\* ------------------------------------------------------ validateTransaction
UrlSchemes == {"https:", "http:"}

\* new URL(url) returns (does not throw): url starts with a scheme
UrlParses(url) == url.s # <<>> /\ Head(url.s) \in UrlSchemes

\* new URL(url): the URL, or a TypeError thrown
NewURL(url) ==
    IF UrlParses(url) THEN Return(url) ELSE Throw(Str(<<"Invalid URL">>))

validCurrencies == <<"USD", "EUR", "GBP", "CAD", "AUD", "XMR", "BTC", "ETH">>
cryptoCurrencies == <<"XMR", "BTC", "ETH">>

\* mutant of Includes: only the first element of the list is found
IncludesFirst(list, currency) == currency = Str(<<list[1]>>)

\* list.includes(currency)
Includes(list, currency) == \E i \in DOMAIN list : currency = Str(<<list[i]>>)

\* isNaN(priceValue) || priceValue < 0
InvalidPrice(priceValue) ==
    priceValue.t = "nan" \/ (priceValue.t = "number" /\ priceValue.n < 0)

\* mutant of MissingPrice: a presence test in place of the truthiness test
MissingPriceAbsent(mapping, transaction) ==
    Truthy(Get(mapping, "isMonetary")) /\ transaction.price = Undefined

\* mapping.isMonetary && !transaction.price
MissingPrice(mapping, transaction) ==
    Truthy(Get(mapping, "isMonetary")) /\ ~Truthy(transaction.price)

\* mutant of ValidationResult: valid whatever the errors
ValidationResultValid(errors) == [valid |-> TRUE, errors |-> errors]

\* { valid: errors.length === 0, errors }
ValidationResult(errors) == [valid |-> (Len(errors) = 0), errors |-> errors]

validateTransaction(transaction) ==
    LET mapping == PropertyOf(TRANSACTION_MAPPINGS, transaction.type)
        type == transaction.type
        e1 == IF Truthy(Get(mapping, "requiresExternalUrl")) /\ ~Truthy(transaction.url)
              THEN <<Str(<<"Transaction type \"", type, "\" requires an external URL">>)>>
              ELSE <<>>
        e2 == IF Truthy(transaction.url) /\ NewURL(transaction.url).kind = "throw"
              THEN <<Str(<<"Invalid URL format: ">> \o transaction.url.s)>>
              ELSE <<>>
        e3 == IF MissingPrice(mapping, transaction)
              THEN <<Str(<<"Monetary transaction type \"", type, "\" requires a price">>)>>
              ELSE <<>>
        e4 == IF transaction.price # Undefined /\ InvalidPrice(PriceValue(transaction.price))
              THEN <<Str(<<"Invalid price: ">> \o ToStr(transaction.price))>>
              ELSE <<>>
        e5 == IF /\ Truthy(Get(mapping, "isMonetary"))
                 /\ Truthy(transaction.currency)
                 /\ ~Includes(validCurrencies, transaction.currency)
              THEN <<Str(<<"Invalid currency: ">> \o transaction.currency.s
                         \o <<". Must be one of: ", "USD, EUR, GBP, CAD, AUD, XMR, BTC, ETH">>)>>
              ELSE <<>>
        e6 == IF /\ Truthy(Get(mapping, "isCryptocurrency"))
                 /\ Truthy(transaction.currency)
                 /\ ~Includes(cryptoCurrencies, transaction.currency)
              THEN <<Str(<<"Cryptocurrency transaction requires crypto currency (XMR, BTC, ETH), got: ">>
                         \o transaction.currency.s)>>
              ELSE <<>>
        errors == e1 \o e2 \o e3 \o e4 \o e5 \o e6
    IN  IF ~Truthy(mapping)
        THEN Return([valid |-> FALSE, errors |-> <<UnknownTypeMessage(type)>>])
        ELSE Return(ValidationResult(errors))

\* mapping?.paymentMethods || []
getPaymentMethods(transactionType) ==
    LET mapping == PropertyOf(TRANSACTION_MAPPINGS, transactionType)
    IN  Return(OrElse(Get(mapping, "paymentMethods"), Arr(<<>>)))

\* the keys of the table in the order of the literal, which is the order
\* Object.entries lists them in
MappingKeys ==
    <<"inquiry", "ebay", "etsy", "amazon", "snail-mail", "monero", "stripe",
      "polar", "talar", "repository", "documentation", "booking", "liberapay",
      "kofi", "contribute-to-consume">>

\* Object.entries(TRANSACTION_MAPPINGS).map(([type, mapping]) => ({ ... }))
getAllTransactionTypes ==
    Return(Arr([i \in DOMAIN MappingKeys |->
        [type |-> MappingKeys[i],
         displayName |-> getTransactionDisplayName(MappingKeys[i]),
         isMonetary |-> TRANSACTION_MAPPINGS[MappingKeys[i]].o.isMonetary,
         isDonation |-> TRANSACTION_MAPPINGS[MappingKeys[i]].o.isDonation,
         isSubscription |-> TRANSACTION_MAPPINGS[MappingKeys[i]].o.isSubscription,
         requiresExternalUrl |->
             TRANSACTION_MAPPINGS[MappingKeys[i]].o.requiresExternalUrl]]))

offerToActivityPubAttachment(offer) ==
    LET type == Get(offer, "transactionType").s[1]
        mapping == PropertyOf(TRANSACTION_MAPPINGS, type)
        v0 == Get(offer, "name").s
        v1 == IF Truthy(Get(mapping, "isMonetary")) /\ Truthy(Get(offer, "price"))
              THEN v0 \o <<" - ">> \o ToStr(Get(offer, "price"))
                      \o <<" ">> \o ToStr(Get(offer, "priceCurrency"))
              ELSE v0
        v2 == IF Truthy(Get(offer, "externalUrl"))
              THEN v1 \o <<" (">> \o Get(offer, "externalUrl").s \o <<")">>
              ELSE v1
    IN  Return([type |-> Str(<<"PropertyValue">>),
                name |-> getTransactionDisplayName(type),
                value |-> Str(v2)])

\* ------------------------------------------------------------------ inputs
BASE_URL == "https://tinyland.dev"

\* type identifiers outside the table, one of them a member of Object.prototype
UnknownTypes == {"unknown-type", "constructor"}
Types == getSupportedTransactionTypes \cup UnknownTypes

Urls == {Undefined, Str(<<"https:", "//shop.example.com">>), Str(<<"not-a-url">>)}
Currencies == {Undefined, Str(<< >>), Str(<<"USD">>), Str(<<"XMR">>), Str(<<"JPY">>)}
PriceNumbers == {Num(0), Num(5 * Scale), Num(0 - Scale), NaN}
PriceChars == {"0", "5", ".", "-", "x"}
PriceStrings == UNION {[1..n -> PriceChars] : n \in 0..MaxStrLen}
Priorities == {Undefined, Num(0 - Scale), Num(Scale)}

TransactionConfig(type, enabled, url, label, description, priority, price, currency, availability) ==
    [type |-> type, enabled |-> enabled, url |-> url, label |-> label,
     description |-> description, priority |-> priority, price |-> price,
     currency |-> currency, availability |-> availability]

\* makeTransaction() of the tests: stripe, enabled, 29.99 USD
makeTransaction ==
    TransactionConfig("stripe", TRUE, Undefined, Undefined, Undefined, Undefined,
                      Num((2999 * Scale) \div 100), Str(<<"USD">>), Undefined)

\* one transaction: every type, url, number price and currency, with the
\* label, description and availability overrides all given or all left out
RichTransactions ==
    { TransactionConfig(type, TRUE, url,
                        IF over THEN Str(<<"Buy Now">>) ELSE Undefined,
                        IF over THEN Str(<<"Limited time offer">>) ELSE Undefined,
                        Undefined, price, currency,
                        IF over THEN Str(<<"PreOrder">>) ELSE Undefined)
      : type \in Types, url \in Urls, price \in {Undefined} \cup PriceNumbers,
        currency \in Currencies, over \in BOOLEAN }

\* one transaction with a string price: a monetary type, the cryptocurrency
\* type, a type that is not monetary and the types outside the table
StringPriceTypes == {"stripe", "monero", "inquiry"} \cup UnknownTypes
StringPriceTransactions ==
    { TransactionConfig(type, TRUE, Undefined, Undefined, Undefined, Undefined,
                        Str(s), Undefined, Undefined)
      : type \in StringPriceTypes, s \in PriceStrings }

\* one transaction with the empty string for its url, of every type
EmptyUrlTransactions ==
    { TransactionConfig(type, TRUE, Str(<< >>), Undefined, Undefined, Undefined,
                        Num(5 * Scale), Undefined, Undefined)
      : type \in Types }

\* the transactions of a product's list: two known types and two unknown
\* ones, enabled with a priority, and a known and an unknown one disabled
ListTypes == {"stripe", "monero"} \cup UnknownTypes
DisabledTypes == {"stripe", "unknown-type"}
ListTransactions ==
    { TransactionConfig(type, TRUE, Undefined, Undefined, Undefined, priority,
                        Num(5 * Scale), Undefined, Undefined)
      : type \in ListTypes, priority \in Priorities }
    \cup
    { TransactionConfig(type, FALSE, Undefined, Undefined, Undefined, Undefined,
                        Num(5 * Scale), Undefined, Undefined)
      : type \in DisabledTypes }

ProductItem(rich, transactions) ==
    [slug |-> "test-product", title |-> "Test Product",
     frontmatter |->
        [name |-> IF rich THEN Str(<<"Primary Name">>) ELSE Undefined,
         description |-> IF rich THEN Str(<<"A nice widget">>) ELSE Undefined,
         image |-> IF rich THEN Str(<<"img.png">>) ELSE Undefined,
         transactions |-> transactions]]

\* an offer record written by hand, as the attachment tests write it
SchemaOffer(type, overrides) ==
    Obj(overrides @@ ("@context" :> Str(<<"https://schema.org">>))
                  @@ ("@type" :> Str(<<"Offer">>))
                  @@ ("@id" :> Str(<<"test-id">>))
                  @@ ("name" :> Str(<<"Test Offer">>))
                  @@ ("availability" :> Str(<<"InStock">>))
                  @@ ("transactionType" :> Str(<<type>>)))

\* the overrides that give a hand-written offer the transaction's price,
\* currency and url, each one only if the transaction has it
Overrides(t) ==
       (IF t.price # Undefined THEN ("price" :> t.price) ELSE << >>)
    @@ (IF t.currency # Undefined THEN ("priceCurrency" :> t.currency) ELSE << >>)
    @@ (IF t.url # Undefined THEN ("externalUrl" :> t.url) ELSE << >>)

TransactionLists == UNION {[1..n -> ListTransactions] : n \in 0..MaxTx}

\* ------------------------------------------------------------------- state
VARIABLES
    product,        \* the ProductItem the operations are called with
    transaction,    \* the TransactionConfig the operations are called with
    config,         \* _config of config.ts
    arrays,         \* what the paymentMethods arrays of the table hold now
    first,          \* what the first buildOffer call returned or threw
    partial,        \* the partial config the last call was given, if it was configure
    op,             \* the operation called last, "none" before the first
    offer,          \* the offer it was called with, Undefined if with none
    result,         \* what it returned or threw
    calls           \* the tracer and span calls it made, in order

vars == <<product, transaction, config, arrays, first, partial, op, offer, result, calls>>

NoResult == [kind |-> "none"]
NoPartial == [kind |-> "none"]

\* the transactions a product with a name, a description and an image in its
\* frontmatter is drawn with: every type, priced, with and without overrides
PricedTransactions ==
    { t \in RichTransactions :
        t.url = Undefined /\ t.price = Num(5 * Scale) /\ t.currency = Undefined }

\* a product with one transaction to build or validate, or a product with a
\* list of transactions for buildAllOffers
Init ==
    /\ \/ /\ transaction \in RichTransactions \cup StringPriceTransactions
                                \cup EmptyUrlTransactions
          /\ product = ProductItem(FALSE, Undefined)
       \/ /\ transaction \in PricedTransactions
          /\ product = ProductItem(TRUE, Undefined)
       \/ /\ transaction = makeTransaction
          /\ product \in {ProductItem(FALSE, Arr(l)) : l \in TransactionLists}
    /\ config = << >>
    /\ arrays = PaymentMethodArrays
    /\ first = NoResult
    /\ partial = NoPartial
    /\ op = "none"
    /\ offer = Undefined
    /\ result = NoResult
    /\ calls = << >>

\* the partial configs configure is given: empty, with a tracer of the
\* caller's, and with the tracer key set to undefined
Partials ==
    {<< >>} \cup {("tracer" :> t) : t \in {customTracer, Undefined}}

\* mutant of Merge: the keys already set win
MergeKeepingFirst(c, p) == c @@ p

\* { ..._config, ...config }: the keys of the partial over those of the config
Merge(c, p) == p @@ c

\* configure(config): _config = { ..._config, ...config }
Configure ==
    \E p \in Partials :
        /\ config' = Merge(config, p)
        /\ partial' = p
        /\ op' = "configure"
        /\ offer' = Undefined
        /\ result' = Return(Undefined)
        /\ calls' = << >>
        /\ UNCHANGED <<product, transaction, arrays, first>>

\* resetConfig(): _config = {}
ResetConfig ==
    /\ config' = << >>
    /\ partial' = NoPartial
    /\ op' = "resetConfig"
    /\ offer' = Undefined
    /\ result' = Return(Undefined)
    /\ calls' = << >>
    /\ UNCHANGED <<product, transaction, arrays, first>>

\* mutant of getConfig: the config object itself is handed out
getConfigShared(c) == Return(Ref("_config"))

\* getConfig(): return { ..._config }, a new object with the config's keys
getConfig(c) == Return(Obj(c))

GetConfig ==
    /\ op' = "getConfig"
    /\ partial' = NoPartial
    /\ offer' = Undefined
    /\ result' = getConfig(config)
    /\ calls' = << >>
    /\ UNCHANGED <<product, transaction, config, arrays, first>>

BuildOffer ==
    LET r == buildOffer(ResolveTracer(config), 1, product, transaction, BASE_URL)
    IN  /\ op' = "buildOffer"
        /\ partial' = NoPartial
        /\ offer' = Undefined
        /\ result' = r.outcome
        /\ calls' = r.calls
        /\ first' = IF first = NoResult THEN r.outcome ELSE first
        /\ UNCHANGED <<product, transaction, config, arrays>>

BuildAllOffers ==
    LET r == buildAllOffers(ResolveTracer(config), 1, product, BASE_URL)
    IN  /\ op' = "buildAllOffers"
        /\ partial' = NoPartial
        /\ offer' = Undefined
        /\ result' = r.outcome
        /\ calls' = r.calls
        /\ product' = ProductAfter(product)
        /\ UNCHANGED <<transaction, config, arrays, first>>

ValidateTransaction ==
    /\ op' = "validateTransaction"
    /\ partial' = NoPartial
    /\ offer' = Undefined
    /\ result' = validateTransaction(transaction)
    /\ calls' = << >>
    /\ UNCHANGED <<product, transaction, config, arrays, first>>

GetPaymentMethods ==
    /\ op' = "getPaymentMethods"
    /\ partial' = NoPartial
    /\ offer' = Undefined
    /\ result' = getPaymentMethods(transaction.type)
    /\ calls' = << >>
    /\ UNCHANGED <<product, transaction, config, arrays, first>>

GetTransactionMapping ==
    /\ op' = "getTransactionMapping"
    /\ partial' = NoPartial
    /\ offer' = Undefined
    /\ result' = Return(getTransactionMapping(transaction.type))
    /\ calls' = << >>
    /\ UNCHANGED <<product, transaction, config, arrays, first>>

RequiresExternalUrl ==
    /\ op' = "requiresExternalUrl"
    /\ partial' = NoPartial
    /\ offer' = Undefined
    /\ result' = Return(requiresExternalUrl(transaction.type))
    /\ calls' = << >>
    /\ UNCHANGED <<product, transaction, config, arrays, first>>

IsMonetary ==
    /\ op' = "isMonetary"
    /\ partial' = NoPartial
    /\ offer' = Undefined
    /\ result' = Return(isMonetary(transaction.type))
    /\ calls' = << >>
    /\ UNCHANGED <<product, transaction, config, arrays, first>>

GetAllTransactionTypes ==
    /\ op' = "getAllTransactionTypes"
    /\ partial' = NoPartial
    /\ offer' = Undefined
    /\ result' = getAllTransactionTypes
    /\ calls' = << >>
    /\ UNCHANGED <<product, transaction, config, arrays, first>>

\* the attachment of the offer buildOffer has just returned, or of an offer
\* written by hand
OfferToActivityPubAttachment ==
    \E o \in {SchemaOffer(transaction.type, Overrides(transaction))}
              \cup (IF op = "buildOffer" /\ result.kind = "return"
                    THEN {result.value} ELSE {}) :
        /\ op' = "offerToActivityPubAttachment"
        /\ partial' = NoPartial
        /\ offer' = o
        /\ result' = offerToActivityPubAttachment(o)
        /\ calls' = << >>
        /\ UNCHANGED <<product, transaction, config, arrays, first>>

Next ==
    \/ Configure
    \/ ResetConfig
    \/ GetConfig
    \/ BuildOffer
    \/ BuildAllOffers
    \/ ValidateTransaction
    \/ GetPaymentMethods
    \/ GetTransactionMapping
    \/ RequiresExternalUrl
    \/ IsMonetary
    \/ GetAllTransactionTypes
    \/ OfferToActivityPubAttachment

Spec == Init /\ [][Next]_vars

\* ------------------------------------------- callers that modify a result
\* the lists of the table that the last result hands to the caller: the list
\* getPaymentMethods returned, the acceptedPaymentMethod of a returned offer
ReturnedLists ==
    IF result.kind # "return" THEN {}
    ELSE IF op = "getPaymentMethods" /\ result.value.t = "ref" THEN {result.value.to}
    ELSE IF op = "buildOffer" /\ Get(result.value, "acceptedPaymentMethod").t = "ref"
         THEN {Get(result.value, "acceptedPaymentMethod").to}
    ELSE {}

\* the caller pushes a payment method onto a list it was returned
PushOntoReturnedList ==
    \E type \in ReturnedLists :
        /\ Len(arrays[type]) < Len(PaymentMethodArrays[type]) + MaxPushed
        /\ arrays' = [arrays EXCEPT ![type] = Append(@, "Cash")]
        /\ UNCHANGED <<product, transaction, config, first, partial, op, offer, result, calls>>

\* the caller renames the offer buildOffer returned
RenameReturnedOffer ==
    /\ op = "buildOffer"
    /\ result.kind = "return"
    /\ result.value.o["name"] # Str(<<"Renamed">>)
    /\ result' = Return(Obj([result.value.o EXCEPT !["name"] = Str(<<"Renamed">>)]))
    /\ UNCHANGED <<product, transaction, config, arrays, first, partial, op, offer, calls>>

\* what a caller makes of a config object c: c.tracer = customTracer, and
\* delete c.tracer
ModifiedConfigs(c) ==
    {("tracer" :> customTracer) @@ c, [k \in DOMAIN c \ {"tracer"} |-> c[k]]}

\* the caller sets or deletes the tracer of the object getConfig returned: the
\* object is the caller's own unless it is the config object itself
ModifyReturnedConfig ==
    /\ op = "getConfig"
    /\ IF result.value.t = "ref"
       THEN /\ config' \in ModifiedConfigs(config)
            /\ UNCHANGED result
       ELSE /\ result' \in {Return(Obj(c)) : c \in ModifiedConfigs(result.value.o)}
            /\ UNCHANGED config
    /\ UNCHANGED <<product, transaction, arrays, first, partial, op, offer, calls>>

\* one priced transaction of each type, with the operations and a caller that
\* modifies what it is returned
InitModifying == Init /\ transaction \in PricedTransactions

NextModifying ==
    \/ Next
    \/ PushOntoReturnedList
    \/ RenameReturnedOffer
    \/ ModifyReturnedConfig

SpecModifying == InitModifying /\ [][NextModifying]_vars

\* ------------------------------------------------------------------ claims
KnownType(type) == type \in getSupportedTransactionTypes
Flag(type, flag) == KnownType(type) /\ TRANSACTION_MAPPINGS[type].o[flag].b
Returned(o) == op = o /\ result.kind = "return"
Threw(o) == op = o /\ result.kind = "throw"

\* C1 (as claimed): for every transaction whose type is not one of the fifteen
\* table keys, buildOffer returns no offer and throws 'Unknown transaction
\* type: <type>'.
C1_UnknownTypeThrows ==
    (op = "buildOffer" /\ ~KnownType(transaction.type))
        => result = Throw(UnknownTypeMessage(transaction.type))

\* the keys and values of the offer buildOffer returned
Offer == result.value.o
PriceKeys == {"price", "priceCurrency", "priceSpecification"}

\* a price the truthiness test lets through: a number other than 0 and NaN,
\* or a string that is not empty
UsablePrice(price) ==
    \/ price.t = "number" /\ price.n # 0
    \/ price.t = "string" /\ Len(price.s) > 0

\* C2 (as claimed): in every offer buildOffer returns, price, priceCurrency and
\* priceSpecification are all present exactly when the mapped type is monetary
\* and a price is supplied, else all absent; priceCurrency is then the
\* transaction's currency, or 'USD' when no currency is given.
C2_PriceFieldsWhenSupplied ==
    Returned("buildOffer") =>
        /\ \A k \in PriceKeys :
              Has(Offer, k) <=> (Flag(transaction.type, "isMonetary")
                                 /\ transaction.price # Undefined)
        /\ Has(Offer, "priceCurrency") =>
              Offer["priceCurrency"] = IF transaction.currency = Undefined
                                       THEN Str(<<"USD">>) ELSE transaction.currency

\* C2 (amended): the three price fields are all present exactly when the mapped
\* type is monetary and the supplied price is truthy (a number other than 0 and
\* NaN, or a non-empty string), else all absent; priceCurrency is then the
\* transaction's currency, or 'USD' when the currency is absent or empty.
C2_PriceFieldsWhenTruthy ==
    Returned("buildOffer") =>
        /\ \A k \in PriceKeys :
              Has(Offer, k) <=> (Flag(transaction.type, "isMonetary")
                                 /\ UsablePrice(transaction.price))
        /\ Has(Offer, "priceCurrency") =>
              Offer["priceCurrency"] =
                  IF transaction.currency \in {Undefined, Str(<< >>)}
                  THEN Str(<<"USD">>) ELSE transaction.currency

C2_Witness ==
    /\ Returned("buildOffer")
    /\ PriceKeys \subseteq DOMAIN Offer
    /\ transaction.currency = Undefined
    /\ Offer["priceCurrency"] = Str(<<"USD">>)

\* C3: for every monetary type, a transaction with numeric price 0 behaves as
\* if no price were supplied: buildOffer returns an offer without a price
\* field, and validateTransaction returns valid=false with the 'requires a
\* price' error.
C3_ZeroPriceIsNoPrice ==
    (Flag(transaction.type, "isMonetary") /\ transaction.price = Num(0)) =>
        /\ op = "buildOffer" =>
              result.kind = "return" /\ ~Has(Offer, "price")
        /\ op = "validateTransaction" =>
              /\ result.kind = "return"
              /\ result.value.valid = FALSE
              /\ \E i \in DOMAIN result.value.errors :
                    result.value.errors[i] =
                        Str(<<"Monetary transaction type \"", transaction.type,
                              "\" requires a price">>)

C3_Witness ==
    /\ Flag(transaction.type, "isMonetary")
    /\ transaction.price = Num(0)
    /\ op = "validateTransaction"
    /\ result.value.valid = FALSE

\* the number a numeric string denotes, place by place: an optional sign, then
\* digits with at most one point among them and a digit on one side of it
SignOf(s) == IF Len(s) > 0 /\ s[1] \in {"-", "+"} THEN <<s[1]>> ELSE <<>>
Unsigned(s) == SubSeq(s, Len(SignOf(s)) + 1, Len(s))
PointAt(u) ==
    IF \E i \in DOMAIN u : u[i] = "." THEN CHOOSE i \in DOMAIN u : u[i] = "."
    ELSE Len(u) + 1
IsNumericString(s) ==
    /\ \A i \in DOMAIN Unsigned(s) : Unsigned(s)[i] \in Digits \cup {"."}
    /\ Cardinality({i \in DOMAIN Unsigned(s) : Unsigned(s)[i] = "."}) <= 1
    /\ \E i \in DOMAIN Unsigned(s) : Unsigned(s)[i] \in Digits

RECURSIVE PlaceSum(_, _, _)
PlaceSum(u, point, i) ==
    IF i = 0 THEN 0
    ELSE PlaceSum(u, point, i - 1)
         + (IF i < point THEN DigitValue[u[i]] * Scale * 10 ^ (point - 1 - i)
            ELSE IF i > point THEN (DigitValue[u[i]] * Scale) \div 10 ^ (i - point)
            ELSE 0)

Denoted(s) ==
    (IF SignOf(s) = <<"-">> THEN -1 ELSE 1)
        * PlaceSum(Unsigned(s), PointAt(Unsigned(s)), Len(Unsigned(s)))

\* C4: whenever buildOffer attaches a priceSpecification, its '@type' is
\* 'UnitPriceSpecification' if the mapped type is cryptocurrency and
\* 'PriceSpecification' otherwise; valueAddedTaxIncluded is present with value
\* false exactly in the non-cryptocurrency case; and its price is the supplied
\* number, or the number a supplied numeric string denotes.
C4_PriceSpecification ==
    (Returned("buildOffer") /\ Has(Offer, "priceSpecification")) =>
        /\ Offer["priceSpecification"].t = "object"
        /\ Offer["priceSpecification"].o["@type"] =
              IF Flag(transaction.type, "isCryptocurrency")
              THEN Str(<<"UnitPriceSpecification">>)
              ELSE Str(<<"PriceSpecification">>)
        /\ Has(Offer["priceSpecification"].o, "valueAddedTaxIncluded")
              <=> ~Flag(transaction.type, "isCryptocurrency")
        /\ Has(Offer["priceSpecification"].o, "valueAddedTaxIncluded")
              => Offer["priceSpecification"].o["valueAddedTaxIncluded"] = Bool(FALSE)
        /\ transaction.price.t = "number"
              => Offer["priceSpecification"].o["price"] = transaction.price
        /\ (transaction.price.t = "string" /\ IsNumericString(transaction.price.s))
              => Offer["priceSpecification"].o["price"]
                     = Num(Denoted(transaction.price.s))

C4_Witness ==
    /\ Returned("buildOffer")
    /\ Has(Offer, "priceSpecification")
    /\ transaction.type = "monero"
    /\ transaction.price = Str(<<".", "5">>)
    /\ Offer["priceSpecification"].o["price"] = Num(Scale \div 2)
    /\ ~Has(Offer["priceSpecification"].o, "valueAddedTaxIncluded")

\* the product's transactions as given, the positions of the enabled ones, and
\* the priority each counts with
Given == IF product.frontmatter.transactions.t = "array"
         THEN product.frontmatter.transactions.a ELSE <<>>
EnabledAt == {i \in DOMAIN Given : Given[i].enabled}
PriorityAt(i) == IF Given[i].priority.t = "number" THEN Given[i].priority.n ELSE 0
Offers == result.value.a
OfferType(k) == Offers[k].o["transactionType"].s[1]

\* the ways to read the offers as one offer per enabled transaction
Readings ==
    {f \in [DOMAIN Offers -> EnabledAt] :
        /\ \A i \in EnabledAt : \E k \in DOMAIN Offers : f[k] = i
        /\ \A k \in DOMAIN Offers : OfferType(k) = Given[f[k]].type}

\* C5: for every product whose enabled transactions all have known types,
\* buildAllOffers returns exactly one offer per enabled transaction and none
\* for a disabled one, ordered by non-increasing priority with a missing
\* priority counted as 0; with no transactions key, an empty sequence or only
\* disabled transactions it returns the empty sequence.
C5_OneOfferPerEnabledByPriority ==
    (op = "buildAllOffers" /\ \A i \in EnabledAt : KnownType(Given[i].type)) =>
        /\ result.kind = "return"
        /\ Len(Offers) = Cardinality(EnabledAt)
        /\ \E f \in Readings :
              \A k \in DOMAIN Offers :
                  k < Len(Offers) => PriorityAt(f[k]) >= PriorityAt(f[k + 1])
        /\ EnabledAt = {} => result = Return(Arr(<<>>))

C5_Witness ==
    /\ Returned("buildAllOffers")
    /\ Len(Given) = 2
    /\ ~Given[1].enabled
    /\ Given[2].enabled
    /\ Len(Offers) = 1

\* C6: in the result of buildAllOffers, any two enabled transactions with equal
\* effective priority (missing counted as 0) appear in the same relative order
\* as in the product's transactions sequence.
C6_StableOrder ==
    Returned("buildAllOffers") =>
        \E f \in Readings :
            /\ \A k \in DOMAIN Offers :
                  k < Len(Offers) => PriorityAt(f[k]) >= PriorityAt(f[k + 1])
            /\ \A k, l \in DOMAIN Offers :
                  (k < l /\ PriorityAt(f[k]) = PriorityAt(f[l])) => f[k] < f[l]

C6_Witness ==
    /\ Returned("buildAllOffers")
    /\ Len(Given) = 2
    /\ EnabledAt = {1, 2}
    /\ PriorityAt(1) = PriorityAt(2)
    /\ Given[1].type = "stripe"
    /\ Given[2].type = "monero"
    /\ OfferType(1) = "stripe"
    /\ OfferType(2) = "monero"

\* the enabled transactions in the order buildAllOffers builds them, and the
\* first of them whose type is not a table key
Unknowns == {k \in DOMAIN enabledTransactions(product) :
                ~KnownType(enabledTransactions(product)[k].type)}
FirstUnknown == CHOOSE k \in Unknowns : \A j \in Unknowns : k <= j
BuildOfferSpans ==
    Cardinality({i \in DOMAIN calls :
                    /\ calls[i].call = "startActiveSpan"
                    /\ calls[i].name = "OfferBuilderService.buildOffer"})

\* C7 (as claimed): buildAllOffers is all-or-nothing: if any enabled transaction
\* has an unknown type, the call throws the error of the first such transaction
\* in priority-sorted order, returns no offers and attempts no transaction
\* after the failing one; a disabled transaction with an unknown type never
\* causes an error.
C7_AllOrNothing ==
    op = "buildAllOffers" =>
        /\ Unknowns # {} =>
              /\ result = Throw(UnknownTypeMessage(
                                  enabledTransactions(product)[FirstUnknown].type))
              /\ BuildOfferSpans = FirstUnknown
        /\ Unknowns = {} => result.kind = "return"

\* the spans of the last operation, and what each was told about its outcome
Spans == {calls[i].span : i \in DOMAIN calls}
CallsOf(k) == SelectSeq(calls, LAMBDA c : c.span = k)
OutcomeCallsOf(k) ==
    SelectSeq(calls, LAMBDA c : c.span = k
                                /\ c.call \in {"setStatus", "recordException", "end"})
Succeeded(k) == OutcomeCallsOf(k) = <<SetStatus(k, 1, Undefined), End(k)>>
FailedWith(k, message) ==
    OutcomeCallsOf(k) = <<RecordException(k, message), SetStatus(k, 2, message), End(k)>>

\* C8: every span opened by buildOffer or buildAllOffers is ended exactly once,
\* as its last call; a body that returns gives its span a success status
\* (code 1) and no recordException; a body that throws gives it
\* recordException, then an error status (code 2 with the error's message),
\* then end(), and the caller gets that same error; no span gets both statuses.
C8_SpanLifecycle ==
    /\ op \in {"buildOffer", "buildAllOffers"} => 1 \in Spans
    /\ \A k \in Spans :
          /\ CallsOf(k)[1].call = "startActiveSpan"
          /\ CallsOf(k)[Len(CallsOf(k))] = End(k)
          /\ \/ Succeeded(k)
             \/ result.kind = "throw" /\ FailedWith(k, result.message)
    /\ (1 \in Spans /\ result.kind = "return") => Succeeded(1)
    /\ (1 \in Spans /\ result.kind = "throw") => FailedWith(1, result.message)

C8_Witness ==
    /\ Threw("buildAllOffers")
    /\ Spans = {1, 2, 3}
    /\ Succeeded(2)
    /\ FailedWith(3, result.message)
    /\ FailedWith(1, result.message)

\* the tracer the config names, the no-op tracer when it names none
Configured ==
    IF "tracer" \in DOMAIN config /\ config["tracer"] # Undefined
    THEN config["tracer"].id ELSE "noopTracer"
StartsOn(cs, tracer) ==
    \E i \in DOMAIN cs : cs[i].call = "startActiveSpan" /\ cs[i].tracer = tracer
IsCall == op' # op \/ partial' # partial \/ result' # result \/ calls' # calls

\* C9 (as claimed): buildOffer, buildAllOffers, validateTransaction,
\* getPaymentMethods and getAllTransactionTypes each call startActiveSpan on the
\* configured tracer when invoked, and offerToActivityPubAttachment never calls
\* the tracer.
C9_EveryEntryPointTraced ==
    [][IsCall =>
          /\ op' \in {"buildOffer", "buildAllOffers", "validateTransaction",
                      "getPaymentMethods", "getAllTransactionTypes"}
                => StartsOn(calls', Configured)
          /\ op' = "offerToActivityPubAttachment" => calls' = <<>>]_vars

\* C9 (amended): buildOffer and buildAllOffers call startActiveSpan on the
\* configured tracer (the no-op tracer when none is configured) when invoked,
\* and on no other tracer; validateTransaction, getPaymentMethods,
\* getAllTransactionTypes and offerToActivityPubAttachment never call the tracer.
C9_OnlyBuildersTraced ==
    [][IsCall =>
          /\ op' \in {"buildOffer", "buildAllOffers"} =>
                /\ calls'[1].call = "startActiveSpan"
                /\ \A i \in DOMAIN calls' :
                      calls'[i].call = "startActiveSpan" => calls'[i].tracer = Configured
          /\ op' \in {"validateTransaction", "getPaymentMethods",
                      "getAllTransactionTypes", "offerToActivityPubAttachment"}
                => calls' = <<>>]_vars

C9_Witness ==
    /\ op = "buildAllOffers"
    /\ config = ("tracer" :> customTracer)
    /\ Len(calls) > 4
    /\ \A i \in DOMAIN calls :
          calls[i].call = "startActiveSpan" => calls[i].tracer = "customTracer"

\* C10 (as claimed): for every transaction whose type is not one of the fifteen
\* table keys, validateTransaction returns valid=false with exactly one error,
\* 'Unknown transaction type: <type>', whatever the url, price and currency.
C10_UnknownTypeShortCircuits ==
    (op = "validateTransaction" /\ ~KnownType(transaction.type)) =>
        result = Return([valid |-> FALSE,
                         errors |-> <<UnknownTypeMessage(transaction.type)>>])

\* what validateTransaction reported
Valid == result.value.valid
Errors == result.value.errors
HasError(e) == \E i \in DOMAIN Errors : Errors[i] = e
HasErrorStarting(prefix) == \E i \in DOMAIN Errors : Errors[i].s[1] = prefix
RequiresUrlError(type) ==
    Str(<<"Transaction type \"", type, "\" requires an external URL">>)
RequiresPriceError(type) ==
    Str(<<"Monetary transaction type \"", type, "\" requires a price">>)

\* a price that is a number: a number value other than NaN, or a numeric string
NonNegativeNumber(price) ==
    \/ price.t = "number" /\ price.n >= 0
    \/ price.t = "string" /\ IsNumericString(price.s) /\ Denoted(price.s) >= 0
NegativeNumber(price) ==
    \/ price.t = "number" /\ price.n < 0
    \/ price.t = "string" /\ IsNumericString(price.s) /\ Denoted(price.s) < 0

\* C11 (as claimed): validateTransaction returns valid=true only when a type
\* requiring an external URL comes with a url and a monetary type comes with a
\* price that is a non-negative number; and a monetary transaction without a
\* price, a URL-requiring transaction without a url, and any negative price
\* each give valid=false with the matching error.
C11_ValidOnlyIfInvariant ==
    op = "validateTransaction" =>
        /\ Valid =>
              /\ Flag(transaction.type, "requiresExternalUrl")
                    => transaction.url # Undefined
              /\ Flag(transaction.type, "isMonetary")
                    => NonNegativeNumber(transaction.price)
        /\ (Flag(transaction.type, "isMonetary") /\ transaction.price = Undefined)
              => ~Valid /\ HasError(RequiresPriceError(transaction.type))
        /\ (Flag(transaction.type, "requiresExternalUrl") /\ transaction.url = Undefined)
              => ~Valid /\ HasError(RequiresUrlError(transaction.type))
        /\ NegativeNumber(transaction.price)
              => ~Valid /\ (KnownType(transaction.type)
                               => HasErrorStarting("Invalid price: "))

\* the two currency sets, and the opening words of the two currency errors
AcceptedCurrencies ==
    {Str(<<c>>) : c \in {"USD", "EUR", "GBP", "CAD", "AUD", "XMR", "BTC", "ETH"}}
CryptoCurrencies == {Str(<<c>>) : c \in {"XMR", "BTC", "ETH"}}
InvalidCurrency == "Invalid currency: "
RequiresCrypto ==
    "Cryptocurrency transaction requires crypto currency (XMR, BTC, ETH), got: "

\* C12 (as claimed): validateTransaction reports 'Invalid currency' exactly
\* when the type is monetary and a currency is present that is outside the
\* eight accepted codes, and 'requires crypto currency' exactly when the type
\* is cryptocurrency and a currency is present that is outside XMR, BTC, ETH;
\* each error is decided on its own, so both can appear together.
C12_CurrencyErrorsWhenPresent ==
    op = "validateTransaction" =>
        /\ HasErrorStarting(InvalidCurrency)
              <=> /\ Flag(transaction.type, "isMonetary")
                  /\ transaction.currency # Undefined
                  /\ transaction.currency \notin AcceptedCurrencies
        /\ HasErrorStarting(RequiresCrypto)
              <=> /\ Flag(transaction.type, "isCryptocurrency")
                  /\ transaction.currency # Undefined
                  /\ transaction.currency \notin CryptoCurrencies

\* C12 (amended): the same with "present" read as present and not the empty
\* string: an empty currency counts as no currency and gives neither error.
C12_CurrencyErrorsWhenNonEmpty ==
    op = "validateTransaction" =>
        /\ HasErrorStarting(InvalidCurrency)
              <=> /\ Flag(transaction.type, "isMonetary")
                  /\ transaction.currency \notin {Undefined, Str(<< >>)}
                  /\ transaction.currency \notin AcceptedCurrencies
        /\ HasErrorStarting(RequiresCrypto)
              <=> /\ Flag(transaction.type, "isCryptocurrency")
                  /\ transaction.currency \notin {Undefined, Str(<< >>)}
                  /\ transaction.currency \notin CryptoCurrencies

\* both currency errors in one result
C12_Witness ==
    /\ op = "validateTransaction"
    /\ transaction.type = "monero"
    /\ transaction.currency = Str(<<"JPY">>)
    /\ HasErrorStarting(InvalidCurrency)
    /\ HasErrorStarting(RequiresCrypto)

\* C13: validateTransaction never raises, whatever the transaction (a
\* malformed url and an unparseable price included): it returns a result
\* whose errors are strings, a malformed url and an unparseable price of a
\* mapped type each being reported there, and valid is true exactly when
\* errors is empty.
C13_NeverRaises ==
    op = "validateTransaction" =>
        /\ result.kind = "return"
        /\ \A i \in DOMAIN Errors : Errors[i].t = "string"
        /\ Valid <=> Errors = << >>
        /\ (KnownType(transaction.type) /\ transaction.url = Str(<<"not-a-url">>))
              => HasErrorStarting("Invalid URL format: ")
        /\ /\ KnownType(transaction.type)
           /\ \/ transaction.price = NaN
              \/ /\ transaction.price.t = "string"
                 /\ \A i \in DOMAIN transaction.price.s :
                       transaction.price.s[i] \notin Digits
           => HasErrorStarting("Invalid price: ")

\* a malformed url and an unparseable price, both reported
C13_Witness ==
    /\ op = "validateTransaction"
    /\ transaction.url = Str(<<"not-a-url">>)
    /\ transaction.price = NaN
    /\ result.kind = "return"
    /\ ~Valid
    /\ Len(Errors) >= 2

\* C14: buildOffer and buildAllOffers validate nothing. For every one of the
\* fifteen types buildOffer returns an offer, also for a transaction that
\* validateTransaction finds invalid; when buildOffer raises, it raises the
\* unknown-type error for a type outside the table, and when buildAllOffers
\* raises, it raises that error for one of its enabled transactions.
C14_NoValidation ==
    /\ op = "buildOffer" =>
          /\ KnownType(transaction.type) => result.kind = "return"
          /\ result.kind = "throw" =>
                /\ ~KnownType(transaction.type)
                /\ result.message = UnknownTypeMessage(transaction.type)
    /\ op = "buildAllOffers" =>
          /\ (\A i \in EnabledAt : KnownType(Given[i].type)) => result.kind = "return"
          /\ result.kind = "throw" =>
                \E i \in EnabledAt :
                    /\ ~KnownType(Given[i].type)
                    /\ result.message = UnknownTypeMessage(Given[i].type)

\* an offer built from a transaction that validation rejects
C14_Witness ==
    /\ Returned("buildOffer")
    /\ KnownType(transaction.type)
    /\ ~validateTransaction(transaction).value.valid
    /\ Len(validateTransaction(transaction).value.errors) >= 3

\* the offer offerToActivityPubAttachment was given and what it returned
OfferField(k) == IF k \in DOMAIN offer.o THEN offer.o[k] ELSE Undefined
OfferedType == offer.o["transactionType"].s[1]
Attachment == result.value
PriceSegment ==
    IF Flag(OfferedType, "isMonetary") /\ UsablePrice(OfferField("price"))
    THEN <<" - ">> \o ToStr(OfferField("price")) \o <<" ">> \o ToStr(OfferField("priceCurrency"))
    ELSE << >>
UrlSegment ==
    IF "externalUrl" \in DOMAIN offer.o
    THEN <<" (">> \o offer.o["externalUrl"].s \o <<")">>
    ELSE << >>

\* C15 (as claimed): for every offer, offerToActivityPubAttachment returns
\* type 'PropertyValue'; name is the fixed display name of the offer's
\* transaction type, or the type string itself when the type is not in the
\* table; value is the offer's name, then ' - {price} {priceCurrency}' exactly
\* when the type is a monetary one of the table and the offer has a price,
\* then ' ({externalUrl})' exactly when the offer has an externalUrl. An offer
\* of a type outside the table gets no price segment even if it has a price.
C15_Attachment ==
    op = "offerToActivityPubAttachment" =>
        /\ result.kind = "return"
        /\ Attachment.type = Str(<<"PropertyValue">>)
        /\ Attachment.name = IF KnownType(OfferedType)
                             THEN names[OfferedType] ELSE Str(<<OfferedType>>)
        /\ Attachment.value = Str(offer.o["name"].s \o PriceSegment \o UrlSegment)

\* the table of the specification: schemaType, then the isMonetary,
\* isCryptocurrency, isSubscription, isDonation and requiresExternalUrl flags
SpecifiedMappings ==
       ("inquiry" :> <<"Offer", FALSE, FALSE, FALSE, FALSE, FALSE>>)
    @@ ("ebay" :> <<"Offer", TRUE, FALSE, FALSE, FALSE, TRUE>>)
    @@ ("etsy" :> <<"Offer", TRUE, FALSE, FALSE, FALSE, TRUE>>)
    @@ ("amazon" :> <<"Offer", TRUE, FALSE, FALSE, FALSE, TRUE>>)
    @@ ("snail-mail" :> <<"Offer", TRUE, FALSE, FALSE, FALSE, FALSE>>)
    @@ ("monero" :> <<"Offer", TRUE, TRUE, FALSE, FALSE, FALSE>>)
    @@ ("stripe" :> <<"Offer", TRUE, FALSE, FALSE, FALSE, FALSE>>)
    @@ ("polar" :> <<"Offer", TRUE, FALSE, TRUE, FALSE, TRUE>>)
    @@ ("talar" :> <<"Offer", TRUE, FALSE, FALSE, FALSE, FALSE>>)
    @@ ("repository" :> <<"Offer", FALSE, FALSE, FALSE, FALSE, TRUE>>)
    @@ ("documentation" :> <<"Offer", FALSE, FALSE, FALSE, FALSE, TRUE>>)
    @@ ("booking" :> <<"ReserveAction", TRUE, FALSE, FALSE, FALSE, TRUE>>)
    @@ ("liberapay" :> <<"DonateAction", TRUE, FALSE, TRUE, TRUE, TRUE>>)
    @@ ("kofi" :> <<"DonateAction", TRUE, FALSE, FALSE, TRUE, TRUE>>)
    @@ ("contribute-to-consume" :> <<"Offer", FALSE, FALSE, FALSE, FALSE, FALSE>>)

\* a mapping carries the flags the specification gives its type
AsSpecified(mapping, type) ==
    /\ mapping.t = "object"
    /\ mapping.o.transactionType = Str(<<type>>)
    /\ mapping.o.schemaType = Str(<<SpecifiedMappings[type][1]>>)
    /\ mapping.o.isMonetary = Bool(SpecifiedMappings[type][2])
    /\ mapping.o.isCryptocurrency = Bool(SpecifiedMappings[type][3])
    /\ mapping.o.isSubscription = Bool(SpecifiedMappings[type][4])
    /\ mapping.o.isDonation = Bool(SpecifiedMappings[type][5])
    /\ mapping.o.requiresExternalUrl = Bool(SpecifiedMappings[type][6])

\* the table against the specification's, entry by entry
TableAsSpecified ==
    /\ Cardinality(getSupportedTransactionTypes) = 15
    /\ getSupportedTransactionTypes = DOMAIN SpecifiedMappings
    /\ \A type \in getSupportedTransactionTypes :
          /\ AsSpecified(TRANSACTION_MAPPINGS[type], type)
          /\ Truthy(TRANSACTION_MAPPINGS[type].o.isCryptocurrency)
                => Truthy(TRANSACTION_MAPPINGS[type].o.isMonetary)

\* C16: the mapping table has exactly fifteen entries, the fifteen types of
\* the specification, each with its key as transactionType and with the
\* schemaType and the five flags of the specification's table, every
\* cryptocurrency entry being monetary; and getTransactionMapping of each of
\* the fifteen types returns that entry.
C16_MappingTable ==
    /\ TableAsSpecified
    /\ (op = "getTransactionMapping" /\ KnownType(transaction.type)) =>
          /\ result.kind = "return"
          /\ AsSpecified(result.value, transaction.type)

C16_Witness ==
    /\ op = "getTransactionMapping"
    /\ transaction.type = "liberapay"
    /\ result.value.o.isDonation = Bool(TRUE)
    /\ result.value.o.schemaType = Str(<<"DonateAction">>)

\* what a returned list holds: a fresh list its own elements, a list of the
\* table what that array holds now
Elements(list) == IF list.t = "ref" THEN arrays[list.to] ELSE list.a

\* C17 (as claimed): for every type that is not one of the fifteen keys,
\* getTransactionMapping returns undefined, requiresExternalUrl and isMonetary
\* return false and getPaymentMethods returns an empty list; for a key of the
\* table, requiresExternalUrl, isMonetary and getPaymentMethods return the
\* values of its mapping.
C17_Lookups ==
    /\ ~KnownType(transaction.type) =>
          /\ op = "getTransactionMapping" => result = Return(Undefined)
          /\ op = "requiresExternalUrl" => result = Return(Bool(FALSE))
          /\ op = "isMonetary" => result = Return(Bool(FALSE))
          /\ op = "getPaymentMethods" =>
                result.kind = "return" /\ Elements(result.value) = << >>
    /\ KnownType(transaction.type) =>
          /\ op = "requiresExternalUrl" =>
                result = Return(Bool(SpecifiedMappings[transaction.type][6]))
          /\ op = "isMonetary" =>
                result = Return(Bool(SpecifiedMappings[transaction.type][2]))
          /\ op = "getPaymentMethods" =>
                /\ result.kind = "return"
                /\ Elements(result.value) = PaymentMethodArrays[transaction.type]

\* the entries getAllTransactionTypes returned
Entries == result.value.a

\* C18: whatever operations came before, getAllTransactionTypes returns
\* exactly fifteen entries, one for each key of the mapping table, each with
\* the isMonetary, isDonation, isSubscription and requiresExternalUrl flags of
\* that key's mapping and with the type's fixed display name, which is not
\* empty.
C18_AllTransactionTypes ==
    op = "getAllTransactionTypes" =>
        /\ result.kind = "return"
        /\ Len(Entries) = 15
        /\ \A type \in getSupportedTransactionTypes :
              Cardinality({i \in DOMAIN Entries : Entries[i].type = type}) = 1
        /\ \A i \in DOMAIN Entries :
              /\ KnownType(Entries[i].type)
              /\ Entries[i].isMonetary = Bool(Flag(Entries[i].type, "isMonetary"))
              /\ Entries[i].isDonation = Bool(Flag(Entries[i].type, "isDonation"))
              /\ Entries[i].isSubscription
                    = Bool(Flag(Entries[i].type, "isSubscription"))
              /\ Entries[i].requiresExternalUrl
                    = Bool(Flag(Entries[i].type, "requiresExternalUrl"))
              /\ Entries[i].displayName = names[Entries[i].type]
              /\ Entries[i].displayName.t = "string"
              /\ Entries[i].displayName.s # << >>

\* the entries listed once a tracer has been configured, the transaction at
\* hand being of a type outside the table
C18_Witness ==
    /\ op = "getAllTransactionTypes"
    /\ "tracer" \in DOMAIN config
    /\ transaction.type = "unknown-type"
    /\ \E i \in DOMAIN Entries :
          Entries[i].type = "kofi" /\ Entries[i].isDonation = Bool(TRUE)

C20_NoSharedState ==
    /\ arrays = PaymentMethodArrays
    /\ KnownType(transaction.type) =>
          /\ Returned("getPaymentMethods") =>
                Elements(result.value) = PaymentMethodArrays[transaction.type]
          /\ Returned("buildOffer") =>
                Elements(Offer["acceptedPaymentMethod"])
                    = PaymentMethodArrays[transaction.type]
          /\ Returned("getTransactionMapping") =>
                Elements(result.value.o.paymentMethods)
                    = PaymentMethodArrays[transaction.type]

\* what getConfig().tracer reads on a config c: undefined when it is absent
TracerOf(c) == Get(getConfig(c).value, "tracer")

\* C21 (as claimed): the configuration is a single slot with merge and
\* last-write-wins semantics: a configure call that supplies a tracer makes it
\* getConfig().tracer, a configure call that supplies none leaves
\* getConfig().tracer as it was, and resetConfig leaves the config empty.
C21_MergeSuppliedTracer ==
    [][IsCall =>
          /\ op' = "configure" =>
                TracerOf(config') =
                    IF Has(partial', "tracer") /\ partial'["tracer"] # Undefined
                    THEN partial'["tracer"] ELSE TracerOf(config)
          /\ op' = "resetConfig" => config' = << >>]_vars

\* C21 (amended): a configure call whose partial has the tracer key makes the
\* value under it getConfig().tracer, undefined included; a configure call
\* whose partial has no tracer key leaves getConfig().tracer as it was; and
\* resetConfig leaves the config empty.
C21_MergeTracerKey ==
    [][IsCall =>
          /\ op' = "configure" =>
                TracerOf(config') =
                    IF Has(partial', "tracer")
                    THEN partial'["tracer"] ELSE TracerOf(config)
          /\ op' = "resetConfig" => config' = << >>]_vars

\* configure({}) called on a config that holds the custom tracer
C21_Witness ==
    /\ op = "configure"
    /\ partial = << >>
    /\ TracerOf(config) = customTracer

\* the keys and values of a config object a caller holds: those of the config
\* c when the object is the config object itself
ContentOf(v, c) == IF v.t = "ref" THEN c ELSE v.o

\* C22: getConfig returns a defensive copy: a call returns an object with the
\* keys and values of the current config, and setting or deleting the tracer
\* of a returned object changes that object only: the config, what a later
\* getConfig call returns and the tracer the Offer Builder resolves stay as
\* they were.
C22_DefensiveCopy ==
    [][/\ (op # "getConfig" /\ op' = "getConfig") =>
             ContentOf(result'.value, config') = config
       /\ (op = "getConfig" /\ op' = "getConfig") =>
             /\ config' = config
             /\ ResolveTracer(config') = ResolveTracer(config)
             /\ \/ ContentOf(result'.value, config') = config
                \/ ContentOf(result'.value, config')
                      \in ModifiedConfigs(ContentOf(result.value, config))]_vars

\* the caller has deleted the tracer of the object it was returned, and the
\* config still holds the custom tracer
C22_Witness ==
    /\ op = "getConfig"
    /\ result.value = Obj(<< >>)
    /\ TracerOf(config) = customTracer

\* JSON.parse(JSON.stringify(v)): a key whose value is undefined or a function
\* is left out, NaN is written as null, a list is written element by element
Null == [t |-> "null"]
RECURSIVE JsonRoundTrip(_)
JsonRoundTrip(v) ==
    CASE v.t = "object" ->
            Obj([k \in {j \in DOMAIN v.o : v.o[j].t \notin {"undefined", "function"}}
                    |-> JsonRoundTrip(v.o[k])])
      [] v.t = "ref" -> Arr(arrays[v.to])
      [] v.t = "nan" -> Null
      [] OTHER -> v

\* a record as compared by value: a list counts by its elements
RECURSIVE ByValue(_)
ByValue(v) ==
    CASE v.t = "object" -> Obj([k \in DOMAIN v.o |-> ByValue(v.o[k])])
      [] v.t = "ref" -> Arr(arrays[v.to])
      [] OTHER -> v

OptionalFields ==
    {"description", "price", "priceCurrency", "priceSpecification", "externalUrl",
     "requiresAction"}
Defined(v) == v \notin {Undefined, Null}

\* C23 (as claimed): in every offer buildOffer returns, each optional field
\* (description, price, priceCurrency, priceSpecification, externalUrl,
\* requiresAction, itemOffered.description, itemOffered.image) is either
\* absent or present with a defined non-null value, and serializing the offer
\* to JSON and parsing it back yields the same fields with the same values.
C23_OptionalityByPresence ==
    Returned("buildOffer") =>
        /\ \A k \in OptionalFields \cap DOMAIN Offer : Defined(Offer[k])
        /\ \A k \in {"description", "image"} \cap DOMAIN Offer["itemOffered"].o :
              Defined(Offer["itemOffered"].o[k])
        /\ JsonRoundTrip(result.value) = ByValue(result.value)

\* C24 (as claimed): the offers one buildAllOffers call returns have pairwise
\* distinct '@id' values, each '{baseUrl}/products/{slug}#offer-{type}'.
C24_DistinctIds ==
    Returned("buildAllOffers") =>
        /\ \A k \in DOMAIN Offers :
              Offers[k].o["@id"] =
                  Str(<<BASE_URL, "/products/", product.slug, "#offer-", OfferType(k)>>)
        /\ \A j, k \in DOMAIN Offers :
              j # k => Offers[j].o["@id"] # Offers[k].o["@id"]

\* the fixed action of a non-monetary type, as the claim lists them
FixedAction(type) ==
    CASE type = "inquiry" -> "contact"
      [] type = "repository" -> "view-source"
      [] type = "documentation" -> "read-docs"
      [] type = "contribute-to-consume" -> "contribute"
      [] OTHER -> "visit"

\* C25 (as claimed): in every offer buildOffer returns, requiresAction is
\* present exactly when the type is not monetary, and then is the fixed action
\* of the type (visit for a type without one of its own); an offer of a
\* monetary type has no requiresAction, with a price or without.
C25_RequiresAction ==
    Returned("buildOffer") =>
        /\ Has(Offer, "requiresAction") <=> ~Flag(transaction.type, "isMonetary")
        /\ Has(Offer, "requiresAction") =>
              Offer["requiresAction"] = Str(<<FixedAction(transaction.type)>>)

\* C26 (as claimed): in every offer buildOffer returns, externalUrl is present
\* exactly when the transaction supplies a url, and then is that url and is
\* offer.url too; without a url, offer.url is '{baseUrl}/products/{slug}',
\* which is always itemOffered.url; and the seller is always the Organization
\* 'Tinyland' with url baseUrl.
C26_UrlsWhenSupplied ==
    Returned("buildOffer") =>
        /\ Has(Offer, "externalUrl") <=> transaction.url # Undefined
        /\ Has(Offer, "externalUrl") =>
              Offer["externalUrl"] = transaction.url /\ Offer["url"] = transaction.url
        /\ transaction.url = Undefined =>
              Offer["url"] = Str(<<BASE_URL, "/products/", product.slug>>)
        /\ Offer["itemOffered"].o["url"] = Str(<<BASE_URL, "/products/", product.slug>>)
        /\ Offer["seller"] = Obj(   ("@type" :> Str(<<"Organization">>))
                                 @@ ("name" :> Str(<<"Tinyland">>))
                                 @@ ("url" :> Str(<<BASE_URL>>)))

\* C26 (amended): externalUrl is present exactly when the transaction supplies
\* a non-empty url, and then is that url and is offer.url too; without a url,
\* or with an empty one, offer.url is '{baseUrl}/products/{slug}', which is
\* always itemOffered.url; and the seller is always the Organization
\* 'Tinyland' with url baseUrl.
C26_UrlsWhenNonEmpty ==
    Returned("buildOffer") =>
        /\ Has(Offer, "externalUrl") <=> transaction.url \notin {Undefined, Str(<< >>)}
        /\ Has(Offer, "externalUrl") =>
              Offer["externalUrl"] = transaction.url /\ Offer["url"] = transaction.url
        /\ transaction.url \in {Undefined, Str(<< >>)} =>
              Offer["url"] = Str(<<BASE_URL, "/products/", product.slug>>)
        /\ Offer["itemOffered"].o["url"] = Str(<<BASE_URL, "/products/", product.slug>>)
        /\ Offer["seller"] = Obj(   ("@type" :> Str(<<"Organization">>))
                                 @@ ("name" :> Str(<<"Tinyland">>))
                                 @@ ("url" :> Str(<<BASE_URL>>)))

\* an offer with the transaction's url as its externalUrl and its url, the
\* product page as the url of the item offered
C26_Witness ==
    /\ Returned("buildOffer")
    /\ transaction.url = Str(<<"https:", "//shop.example.com">>)
    /\ Offer["externalUrl"] = transaction.url
    /\ Offer["url"] = transaction.url
    /\ Offer["itemOffered"].o["url"] # transaction.url

\* validateTransaction finds the transaction at hand valid
ValidTransaction == validateTransaction(transaction).value.valid

\* C27: validation implies clean construction: when validateTransaction
\* returns valid=true for the transaction, buildOffer returns an offer, the
\* offer has price, priceCurrency and priceSpecification if the type is
\* monetary, and it has externalUrl if the type requires an external URL.
C27_ValidBuildsCleanly ==
    (op = "buildOffer" /\ ValidTransaction) =>
        /\ result.kind = "return"
        /\ Flag(transaction.type, "isMonetary") =>
              {"price", "priceCurrency", "priceSpecification"} \subseteq DOMAIN Offer
        /\ Flag(transaction.type, "requiresExternalUrl") => Has(Offer, "externalUrl")

\* the offer of a valid transaction of a monetary type that requires an
\* external URL, with its price fields and its externalUrl
C27_Witness ==
    /\ Returned("buildOffer")
    /\ ValidTransaction
    /\ transaction.type = "ebay"
    /\ Offer["price"] = transaction.price
    /\ Offer["externalUrl"] = transaction.url

\* the offers offerToActivityPubAttachment can be given in the state at hand
OffersAtHand ==
    {SchemaOffer(transaction.type, Overrides(transaction))}
        \cup (IF Returned("buildOffer") THEN {result.value} ELSE {})

\* C28: buildAllOffers, buildOffer, validateTransaction and
\* offerToActivityPubAttachment leave their inputs unchanged: after a call,
\* returned or raised, the product, its frontmatter.transactions sequence in
\* its original order, the transaction and the offer given are as before.
C28_InputsUnchanged ==
    [][/\ op' \in {"buildAllOffers", "buildOffer", "validateTransaction",
                    "offerToActivityPubAttachment"} =>
             product' = product /\ transaction' = transaction
       /\ (IsCall /\ op' = "offerToActivityPubAttachment") => offer' \in OffersAtHand]_vars

\* offers returned in priority order for a product whose list still has the
\* lower priority first
C28_Witness ==
    /\ Returned("buildAllOffers")
    /\ Len(Given) = 2
    /\ EnabledAt = {1, 2}
    /\ PriorityAt(1) < PriorityAt(2)
    /\ Given[1].type = "stripe"
    /\ Given[2].type = "monero"
    /\ OfferType(1) = "monero"
    /\ OfferType(2) = "stripe"

\* where span k is started and ended in the calls made, and where its
\* exception is recorded
StartOf(k) == CHOOSE i \in DOMAIN calls :
                 calls[i].span = k /\ calls[i].call = "startActiveSpan"
EndOf(k) == CHOOSE i \in DOMAIN calls : calls[i] = End(k)
RecordOf(k) == CHOOSE i \in DOMAIN calls :
                  calls[i].span = k /\ calls[i].call = "recordException"
InnerSpans == Spans \ {1}
OffersCounts == {i \in DOMAIN calls :
                    /\ calls[i].call = "setAttribute"
                    /\ calls[i].key = "offers.count"}

\* C29: the spans of one buildAllOffers call are properly nested: the
\* buildAllOffers span is started first and ended last; the buildOffer spans
\* are one per transaction built, in sorted order, each started and ended
\* with no call of another span in between; when a buildOffer raises, its
\* span records the error with an error status, then the outer span does, and
\* the inner spans before it keep their success status; the outer span gets
\* 'offers.count' only on success, the number of offers returned.
C29_NestedSpans ==
    op = "buildAllOffers" =>
        /\ calls[1].span = 1
        /\ calls[1].call = "startActiveSpan"
        /\ calls[1].name = "OfferBuilderService.buildAllOffers"
        /\ calls[Len(calls)] = End(1)
        /\ InnerSpans = 2 .. (BuildOfferSpans + 1)
        /\ BuildOfferSpans <= Len(enabledTransactions(product))
        /\ result.kind = "return" =>
              BuildOfferSpans = Len(Offers) /\ Len(Offers) = Cardinality(EnabledAt)
        /\ \A k \in InnerSpans :
              /\ calls[StartOf(k)].name = "OfferBuilderService.buildOffer"
              /\ calls[StartOf(k) + 1] =
                    SetAttribute(k, "transaction.type",
                                 Str(<<enabledTransactions(product)[k - 1].type>>))
              /\ 1 < StartOf(k)
              /\ EndOf(k) < Len(calls)
              /\ \A i \in StartOf(k) .. EndOf(k) : calls[i].span = k
              /\ \A i \in DOMAIN calls : calls[i].span = k =>
                    i \in StartOf(k) .. EndOf(k)
              /\ (k + 1) \in InnerSpans => EndOf(k) < StartOf(k + 1)
              /\ (k + 1) \in InnerSpans => Succeeded(k)
        /\ result.kind = "throw" =>
              /\ InnerSpans # {}
              /\ FailedWith(BuildOfferSpans + 1, result.message)
              /\ FailedWith(1, result.message)
              /\ RecordOf(BuildOfferSpans + 1) < RecordOf(1)
              /\ OffersCounts = {}
        /\ result.kind = "return" =>
              /\ \A k \in Spans : Succeeded(k)
              /\ Cardinality(OffersCounts) = 1
              /\ \A i \in OffersCounts :
                    calls[i] = SetAttribute(1, "offers.count", Num(Len(Offers) * Scale))

\* a second buildOffer raising after a first that succeeded: three spans, the
\* error recorded on the inner span before the outer, and no 'offers.count'
C29_Witness ==
    /\ Threw("buildAllOffers")
    /\ InnerSpans = {2, 3}
    /\ Succeeded(2)
    /\ EndOf(2) < StartOf(3)
    /\ RecordOf(3) < RecordOf(1)
    /\ OffersCounts = {}

\* the tracer a call is to use under a config c: the one getConfig().tracer
\* reads, the no-op tracer when that is undefined
TracerToUse(c) == IF TracerOf(c) = Undefined THEN "noopTracer" ELSE TracerOf(c).id

\* C30: the tracer is resolved from the process-wide config at the start of
\* each buildOffer and buildAllOffers call: every span of the call is started
\* on the tracer the config holds when the call is made, the no-op tracer
\* when the config is empty or its tracer undefined; and the config changes
\* in configure and resetConfig calls only.
C30_TracerResolvedPerCall ==
    [][/\ (IsCall /\ op' \in {"buildOffer", "buildAllOffers"}) =>
             /\ StartsOn(calls', TracerToUse(config))
             /\ \A i \in DOMAIN calls' :
                   calls'[i].call = "startActiveSpan" =>
                       calls'[i].tracer = TracerToUse(config)
       /\ config' # config => op' \in {"configure", "resetConfig"}]_vars

\* a buildOffer call made after configure({ tracer: undefined }) had unset
\* the tracer, its span started on the no-op tracer
C30_Witness ==
    /\ Returned("buildOffer")
    /\ Has(config, "tracer")
    /\ TracerOf(config) = Undefined
    /\ calls[1].tracer = "noopTracer"

====
